---- MODULE Spec2Model ----
(***************************************************************************)
(* Outline parsing, connector derivation and progressive reveal of the     *)
(* checklist scenes (src/src/scenes/tag.tsx, src/src/scenes/example.tsx)   *)
(* and of the shared checklist module (src/unnamed/part_002).              *)
(*                                                                         *)
(* A string is a sequence of one-character strings; string indices are     *)
(* 0-based as in the source and converted at each access.                  *)
(*                                                                         *)
(* Vertical positions and extents (row centers, edges, connector height    *)
(* and offset) are held in half pixels, twice the value of the source, so  *)
(* that the source's divisions by 2 are exact for every integer row height *)
(* and gap.  Row height and gap themselves stay in pixels.                 *)
(***************************************************************************)
EXTENDS Integers, Sequences, FiniteSets, TLC

VARIABLES
    pc,               \* position of the scene: "init", "built", "parsed"
    checklistLines,   \* the raw outline text, one string per row
    layout,           \* row height / gap / indent width in effect
    lineAnalyses,     \* checklistLines.map(analyzeLine)
    tokenizedLines,   \* checklistLines.map(tokenizeLine)
    linesWithRanges,  \* tokens with global start / end offsets
    totalCharacters,  \* runningTotal after the ranges are assigned
    connectors,       \* per line: connector meta or nullObject
    lineCenters,      \* vertical center of every row of the scene
    lineRanges,       \* per line: start of its first token, end of its last
    markerRevealThresholds, \* per line: offset at which its marker is typed
    parsedDocument,   \* result of parseDocument(checklistLines)
    typed,            \* the reveal cursor signal
    dailyPc,          \* daily notes: the waitFor at which the scene is suspended
    targetLines,      \* daily notes: the text to be typed
    currentLines,     \* daily notes: the text typed so far
    documentChildren, \* daily notes: the row nodes under documentRef
    documentVersion,  \* daily notes: counter of the key prefixes handed out
    typingLineIndex,  \* daily notes: lineIndex of the typing loop
    typingCharIndex,  \* daily notes: charIndex of the running character loop
    originalLine      \* daily notes: the task line before the insertion

vars == <<pc, checklistLines, layout, lineAnalyses, tokenizedLines,
          linesWithRanges, totalCharacters, connectors, lineCenters,
          lineRanges, markerRevealThresholds, parsedDocument, typed,
          dailyPc, targetLines, currentLines, documentChildren,
          documentVersion, typingLineIndex, typingCharIndex, originalLine>>

dailyVars == <<dailyPc, targetLines, currentLines, documentChildren,
               documentVersion, typingLineIndex, typingCharIndex, originalLine>>

sceneVars == <<pc, checklistLines, layout, lineAnalyses, tokenizedLines,
               linesWithRanges, totalCharacters, connectors, lineCenters,
               lineRanges, markerRevealThresholds, typed>>

(***************************************************************************)
(* Bounds of the explored inputs.                                          *)
(***************************************************************************)
MaxIndent == 8
MaxTail == 3
MaxLines == 4
MaxRevealLines == 2
TypedMargin == 2
MaxGrowLines == 3
MaxLayoutLines == 3
MaxRowHeight == 3
MaxColumnGap == 2

(***************************************************************************)
(* JavaScript values.                                                      *)
(***************************************************************************)
Tab == "\t"
\* null of a `string | null` (no string of the model is <<"null">>: every
\* element of a string is a single character)
nullString == <<"null">>
\* null of an `object | null`
nullObject == [isNull |-> TRUE]

Max(a, b) == IF a >= b THEN a ELSE b
Min(a, b) == IF a <= b THEN a ELSE b

\* s.slice(from, to) for 0 <= from, to clipped to the length
Slice(s, from, to) == SubSeq(s, from + 1, Min(to, Len(s)))
\* s.slice(from)
SliceFrom(s, from) == SubSeq(s, from + 1, Len(s))
\* s[i], undefined past the end
CharAt(s, i) == IF i >= 0 /\ i < Len(s) THEN s[i + 1] ELSE "undefined"

\* /\s/.test(char), for the characters of the explored alphabet
isWhitespace(char) == char \in {" ", Tab}

(***************************************************************************)
(* shared/checklist constants.                                             *)
(***************************************************************************)
checkboxFrameSize == 36

\* the map without its entry for the capital X
checkboxCharToStateLowerOnly ==
    (" " :> "unchecked") @@ ("x" :> "done") @@
    ("/" :> "inProgress") @@ ("-" :> "cancelled") @@ ("!" :> "error") @@
    ("?" :> "question")

checkboxCharToState ==
    (" " :> "unchecked") @@ ("x" :> "done") @@ ("X" :> "done") @@
    ("/" :> "inProgress") @@ ("-" :> "cancelled") @@ ("!" :> "error") @@
    ("?" :> "question")

\* checkboxCharToState[stateChar] ?? 'unchecked'
StateOrUnchecked(stateChar) ==
    IF stateChar \in DOMAIN checkboxCharToState
    THEN checkboxCharToState[stateChar]
    ELSE "unchecked"

\* the character class [ xX/\-!\?] of the checkbox patterns
CheckboxClass == {" ", "x", "X", "/", "-", "!", "?"}

(***************************************************************************)
(* tokenizeLine                                                            *)
(***************************************************************************)
\* line.slice(index).match(/^-\s\[([ xX/\-!\?])\]/)
TokenizerCheckboxMatch(line, index) ==
    /\ index + 5 <= Len(line)
    /\ line[index + 1] = "-"
    /\ isWhitespace(line[index + 2])
    /\ line[index + 3] = "["
    /\ line[index + 4] \in CheckboxClass
    /\ line[index + 5] = "]"

RECURSIVE SpaceRunEnd(_, _)
SpaceRunEnd(line, end) ==
    IF end < Len(line) /\ line[end + 1] = " "
    THEN SpaceRunEnd(line, end + 1)
    ELSE end

RECURSIVE TagEnd(_, _)
TagEnd(line, end) ==
    IF end < Len(line) /\ ~isWhitespace(line[end + 1])
    THEN TagEnd(line, end + 1)
    ELSE end

RECURSIVE TextEnd(_, _)
TextEnd(line, end) ==
    IF end < Len(line) /\ ~(line[end + 1] = "#" \/ isWhitespace(line[end + 1]))
    THEN TextEnd(line, end + 1)
    ELSE end

\* width base of a space run, from the type of the previous token
SpaceBaseWidth(tokens) ==
    IF tokens = <<>> THEN 16
    ELSE IF tokens[Len(tokens)].type = "checkbox" THEN checkboxFrameSize - 10
    ELSE IF tokens[Len(tokens)].type = "bullet" THEN 20
    ELSE 16

CheckboxTokenOf(raw, stateChar) ==
    [type |-> "checkbox", raw |-> raw, length |-> Len(raw),
     state |-> StateOrUnchecked(stateChar)]

SpaceTokenOf(raw, tokens) ==
    [type |-> "space", raw |-> raw, length |-> Len(raw),
     width |-> SpaceBaseWidth(tokens) * Len(raw)]

BulletToken == [type |-> "bullet", raw |-> <<"-">>, length |-> 1]

\* index += 1 after a bullet token
BulletAdvanceSkipsSpace(index) == index + 2
BulletAdvance(index) == index + 1

TagTokenOf(raw) ==
    [type |-> "tag", raw |-> raw, length |-> Len(raw), tagName |-> SliceFrom(raw, 1)]

\* a text token whose length leaves out its last character
TextTokenOfShort(raw) == [type |-> "text", raw |-> raw, length |-> Len(raw) - 1]
TextTokenOf(raw) == [type |-> "text", raw |-> raw, length |-> Len(raw)]

RECURSIVE tokenizeFrom(_, _, _)
tokenizeFrom(line, index, tokens) ==
    IF ~(index < Len(line)) THEN tokens
    ELSE LET current == line[index + 1] IN
        IF TokenizerCheckboxMatch(line, index)
        THEN LET raw == Slice(line, index, index + 5) IN
             tokenizeFrom(line, index + Len(raw),
                          Append(tokens, CheckboxTokenOf(raw, line[index + 4])))
        ELSE IF current = " "
        THEN LET end == SpaceRunEnd(line, index + 1) IN
             tokenizeFrom(line, end,
                          Append(tokens, SpaceTokenOf(Slice(line, index, end), tokens)))
        ELSE IF current = "-" /\ CharAt(line, index + 1) = " "
        THEN tokenizeFrom(line, BulletAdvance(index), Append(tokens, BulletToken))
        ELSE IF current = "#"
        THEN LET end == TagEnd(line, index + 1) IN
             tokenizeFrom(line, end, Append(tokens, TagTokenOf(Slice(line, index, end))))
        ELSE LET end == TextEnd(line, index + 1) IN
             tokenizeFrom(line, end, Append(tokens, TextTokenOf(Slice(line, index, end))))

tokenizeLine(line) == tokenizeFrom(line, 0, <<>>)

(***************************************************************************)
(* analyzeLine                                                             *)
(***************************************************************************)
\* rawLine.match(/^ */)[0].length
RECURSIVE LeadingSpacesFrom(_, _)
LeadingSpacesFrom(rawLine, n) ==
    IF n < Len(rawLine) /\ rawLine[n + 1] = " "
    THEN LeadingSpacesFrom(rawLine, n + 1)
    ELSE n

\* the count under /^\s*/ instead: tabs are counted too
RECURSIVE LeadingWhitespaceFrom(_, _)
LeadingWhitespaceFrom(rawLine, n) ==
    IF n < Len(rawLine) /\ isWhitespace(rawLine[n + 1])
    THEN LeadingWhitespaceFrom(rawLine, n + 1)
    ELSE n

LeadingWhitespace(rawLine) == LeadingWhitespaceFrom(rawLine, 0)
LeadingSpaces(rawLine) == LeadingSpacesFrom(rawLine, 0)

\* Math.floor(indentSpaces / 4)
IndentLevelOf(indentSpaces) == indentSpaces \div 4

\* remainder.match(/^- \[([ xX/\-!\?])\]/)
LineCheckboxMatch(remainder) ==
    /\ Len(remainder) >= 5
    /\ remainder[1] = "-"
    /\ remainder[2] = " "
    /\ remainder[3] = "["
    /\ remainder[4] \in CheckboxClass
    /\ remainder[5] = "]"

\* the marker and what follows it
MarkerOf(remainder) ==
    IF LineCheckboxMatch(remainder) THEN "checkbox"
    ELSE IF CharAt(remainder, 0) = "-" THEN "bullet"
    ELSE "null"

AfterMarker(remainder) ==
    IF LineCheckboxMatch(remainder) THEN SliceFrom(remainder, 5)
    ELSE IF CharAt(remainder, 0) = "-" THEN SliceFrom(remainder, 1)
    ELSE remainder

\* remainder.indexOf('#', from), -1 when absent
RECURSIVE IndexOfHash(_, _)
IndexOfHash(remainder, from) ==
    IF from >= Len(remainder) THEN -1
    ELSE IF remainder[from + 1] = "#" THEN from
    ELSE IndexOfHash(remainder, from + 1)

\* remainder.replace(/^\s+/, '')
RECURSIVE TrimStart(_)
TrimStart(s) ==
    IF s # <<>> /\ isWhitespace(s[1]) THEN TrimStart(Tail(s)) ELSE s

\* the name after the first '#' found anywhere in the remainder
ConnectorTagNameAnywhere(remainder) ==
    LET at == IndexOfHash(remainder, 0) IN
    IF at # -1 /\ TagEnd(remainder, at + 1) > at + 1
    THEN Slice(remainder, at + 1, TagEnd(remainder, at + 1))
    ELSE nullString

\* remainder.startsWith('#') and remainder.match(/^#([^\s]+)/)
ConnectorTagNameOf(remainder) ==
    IF CharAt(remainder, 0) = "#" /\ TagEnd(remainder, 1) > 1
    THEN Slice(remainder, 1, TagEnd(remainder, 1))
    ELSE nullString

analyzeLine(rawLine) ==
    LET indentSpaces == LeadingSpaces(rawLine)
        remainder == SliceFrom(rawLine, indentSpaces)
    IN  [indentSpaces |-> indentSpaces,
         indentLevel |-> IndentLevelOf(indentSpaces),
         marker |-> MarkerOf(remainder),
         connectorTagName |-> ConnectorTagNameOf(TrimStart(AfterMarker(remainder)))]

(***************************************************************************)
(* splitLineTokens                                                         *)
(***************************************************************************)
\* number of leading tokens that are space tokens with raw.trim() === ''
RECURSIVE IndentTokenCount(_, _)
IndentTokenCount(lineTokens, index) ==
    IF index < Len(lineTokens) /\ lineTokens[index + 1].type = "space"
       /\ \A k \in 1..Len(lineTokens[index + 1].raw) :
              isWhitespace(lineTokens[index + 1].raw[k])
    THEN IndentTokenCount(lineTokens, index + 1)
    ELSE index

splitLineTokens(lineTokens) ==
    LET index == IndentTokenCount(lineTokens, 0)
        hasMarker == index < Len(lineTokens)
                     /\ lineTokens[index + 1].type \in {"checkbox", "bullet"}
    IN  [indentTokens |-> Slice(lineTokens, 0, index),
         markerToken |-> IF hasMarker THEN lineTokens[index + 1] ELSE nullObject,
         contentTokens |-> SliceFrom(lineTokens, IF hasMarker THEN index + 1 ELSE index)]

(***************************************************************************)
(* Scene construction of the tag scene: centers, ranges, connectors.       *)
(***************************************************************************)
tagPalette ==
    (<<"a","p","p","l","i","c","a","t","i","o","n">> :> "#34d399") @@
    (<<"t","o","d","o">> :> "#8f6bff") @@
    (<<"b","a","c","k","l","o","g">> :> "#4ba3ff") @@
    (<<"t","a","g">> :> "#38bdf8") @@
    (<<"i","d","e","a">> :> "#facc15")

defaultTagColor == "#94a3b8"

\* tagPalette[name] ?? defaultTagColor
PaletteColor(name) ==
    IF name \in DOMAIN tagPalette THEN tagPalette[name] ELSE defaultTagColor

defaultLayoutConfig == [rowHeight |-> 48, columnGap |-> 6, indentSpaceWidth |-> 16]

\* rowHeight and columnGap of the tag scene
sceneRowHeight == 48
sceneColumnGap == 6

\* lineCenters of the tag scene, in half pixels: totalHeight uses
\* (lineCount - 1) * columnGap
sceneLineCenters(lineCount, rowHeight, columnGap) ==
    LET totalHeight == lineCount * rowHeight + (lineCount - 1) * columnGap
        firstLineCenter == rowHeight - totalHeight
    IN  [index \in 1..lineCount |->
            firstLineCenter + 2 * (index - 1) * (rowHeight + columnGap)]

\* the token with its global range; a checkbox token also gets its index
RangeEndOffByOne(start, token) == start + token.length - 1
RangeEnd(start, token) == start + token.length

withRange(token, start, lineIndex, checkboxCounter) ==
    LET ranged == [start |-> start, end |-> RangeEnd(start, token),
                   lineIndex |-> lineIndex] @@ token
    IN  IF token.type = "checkbox"
        THEN [checkboxIndex |-> checkboxCounter] @@ ranged
        ELSE ranged

\* lineTokens.map(...) threading runningTotal and checkboxCounter
RECURSIVE RangeTokens(_, _, _, _, _, _)
RangeTokens(lineTokens, k, lineIndex, runningTotal, checkboxCounter, acc) ==
    IF k > Len(lineTokens)
    THEN [tokens |-> acc, runningTotal |-> runningTotal,
          checkboxCounter |-> checkboxCounter]
    ELSE LET token == withRange(lineTokens[k], runningTotal, lineIndex, checkboxCounter)
         IN  RangeTokens(lineTokens, k + 1, lineIndex, token.end,
                         IF token.type = "checkbox" THEN checkboxCounter + 1
                         ELSE checkboxCounter,
                         Append(acc, token))

\* runningTotal is shared by all rows: a row starts where the previous ended
NextLineStartAtZero(runningTotal) == 0
NextLineStart(runningTotal) == runningTotal

\* tokenizedLines.map(...)
RECURSIVE RangeLines(_, _, _, _, _)
RangeLines(tokenized, lineIndex, runningTotal, checkboxCounter, acc) ==
    IF lineIndex >= Len(tokenized)
    THEN [lines |-> acc, runningTotal |-> runningTotal]
    ELSE LET r == RangeTokens(tokenized[lineIndex + 1], 1, lineIndex,
                              runningTotal, checkboxCounter, <<>>)
         IN  RangeLines(tokenized, lineIndex + 1, NextLineStart(r.runningTotal),
                        r.checkboxCounter, Append(acc, r.tokens))

\* the break condition of the child scan
StopsSubtreeStrict(childLevel, parentLevel) == childLevel < parentLevel
StopsSubtree(childLevel, parentLevel) == childLevel <= parentLevel

\* for (j = index + 1; j < lineCount; j++) { if (...) break; childIndices.push(j) }
RECURSIVE ScanChildren(_, _, _, _)
ScanChildren(levels, parentLevel, j, childIndices) ==
    IF j < Len(levels) /\ ~StopsSubtree(levels[j + 1], parentLevel)
    THEN ScanChildren(levels, parentLevel, j + 1, Append(childIndices, j))
    ELSE childIndices

\* the scan passing over a shallower line instead of stopping at it
ChildIndicesPastBreak(levels, index) ==
    SelectSeq([k \in 1..(Len(levels) - index - 1) |-> index + k],
              LAMBDA j : levels[j + 1] > levels[index + 1])

\* levels: the indentLevel of every line; index: 0-based line index
ChildIndicesOf(levels, index) ==
    ScanChildren(levels, levels[index + 1], index + 1, <<>>)

\* the first tag token of the line, or nullObject
RECURSIVE FirstOfType(_, _, _)
FirstOfType(items, type, k) ==
    IF k > Len(items) THEN nullObject
    ELSE IF items[k].type = type THEN items[k]
    ELSE FirstOfType(items, type, k + 1)

\* a tagged line without children yields null
ConnectorForEmptyKept(info, childIndices) == info.connectorTagName = nullString
ConnectorSuppressed(info, childIndices) ==
    \/ info.connectorTagName = nullString
    \/ Len(childIndices) = 0

sceneConnector(analyses, ranged, index) ==
    LET info == analyses[index + 1]
        levels == [k \in 1..Len(analyses) |-> analyses[k].indentLevel]
        childIndices == ChildIndicesOf(levels, index)
        connectorTagToken == FirstOfType(ranged[index + 1], "tag", 1)
    IN  IF ConnectorSuppressed(info, childIndices) THEN nullObject
        ELSE [color |-> PaletteColor(info.connectorTagName),
              childIndices |-> childIndices,
              colorSignal |-> IF connectorTagToken = nullObject THEN "undefined"
                              ELSE PaletteColor(connectorTagToken.tagName)]

lineRangeOf(lineTokens) ==
    IF Len(lineTokens) = 0 THEN [start |-> 0, end |-> 0]
    ELSE [start |-> lineTokens[1].start, end |-> lineTokens[Len(lineTokens)].end]

\* return markerToken.end
MarkerEndInLine(markerToken) == markerToken.length
MarkerEnd(markerToken) == markerToken.end

markerRevealThreshold(lineTokens) ==
    LET split == splitLineTokens(lineTokens) IN
    IF split.markerToken # nullObject THEN MarkerEnd(split.markerToken)
    ELSE IF Len(split.contentTokens) > 0 THEN split.contentTokens[1].start
    ELSE lineRangeOf(lineTokens).end

(***************************************************************************)
(* shared/checklist: parseSegments, parseLine, parseDocument               *)
(***************************************************************************)
\* content.indexOf(ch, from), -1 when absent
RECURSIVE IndexOf(_, _, _)
IndexOf(content, ch, from) ==
    IF from >= Len(content) THEN -1
    ELSE IF content[from + 1] = ch THEN from
    ELSE IndexOf(content, ch, from + 1)

\* the end of a text segment: stops at '#' or '['
RECURSIVE SegmentTextEnd(_, _)
SegmentTextEnd(content, end) ==
    IF end < Len(content) /\ content[end + 1] # "#" /\ content[end + 1] # "["
    THEN SegmentTextEnd(content, end + 1)
    ELSE end

\* [alias](url) starting at index: the index of the closing ')' or -1
LinkUrlEnd(content, index) ==
    LET aliasEnd == IndexOf(content, "]", index + 1) IN
    IF content[index + 1] = "[" /\ aliasEnd # -1 /\ CharAt(content, aliasEnd + 1) = "("
    THEN IndexOf(content, ")", aliasEnd + 2)
    ELSE -1

TagSegmentOf(raw) ==
    LET tagName == SliceFrom(raw, 1) IN
    [type |-> "tag", raw |-> raw, tagName |-> tagName,
     recognized |-> Len(tagName) > 0 /\ tagName \in DOMAIN tagPalette,
     color |-> IF tagName \in DOMAIN tagPalette THEN tagPalette[tagName]
               ELSE "undefined"]

LinkSegmentOf(content, index) ==
    LET aliasEnd == IndexOf(content, "]", index + 1) IN
    [type |-> "link", alias |-> Slice(content, index + 1, aliasEnd),
     url |-> Slice(content, aliasEnd + 2, LinkUrlEnd(content, index))]

RECURSIVE parseSegmentsFrom(_, _, _)
parseSegmentsFrom(content, index, segments) ==
    IF ~(index < Len(content)) THEN segments
    ELSE IF content[index + 1] = "#"
    THEN LET end == TagEnd(content, index + 1) IN
         parseSegmentsFrom(content, end,
                           Append(segments, TagSegmentOf(Slice(content, index, end))))
    ELSE IF LinkUrlEnd(content, index) # -1
    THEN parseSegmentsFrom(content, LinkUrlEnd(content, index) + 1,
                           Append(segments, LinkSegmentOf(content, index)))
    ELSE LET end == SegmentTextEnd(content, index + 1) IN
         parseSegmentsFrom(content, end,
                           Append(segments, [type |-> "text",
                                             text |-> Slice(content, index, end)]))

parseSegments(content) ==
    LET segments == parseSegmentsFrom(content, 0, <<>>) IN
    IF Len(segments) = 0 THEN <<[type |-> "text", text |-> <<>>]>> ELSE segments

parseLine(rawLine) ==
    LET indentSpaces == LeadingSpaces(rawLine)
        remainder == SliceFrom(rawLine, indentSpaces)
        segments == parseSegments(AfterMarker(remainder))
        firstTag == FirstOfType(segments, "tag", 1)
        tagRecognized == firstTag # nullObject /\ firstTag.recognized
    IN  [indentSpaces |-> indentSpaces,
         indentLevel |-> IndentLevelOf(indentSpaces),
         marker |-> MarkerOf(remainder),
         checkboxState |-> IF LineCheckboxMatch(remainder)
                           THEN StateOrUnchecked(remainder[4])
                           ELSE "undefined",
         segments |-> segments,
         hasTag |-> firstTag # nullObject,
         tagRecognized |-> tagRecognized,
         tagColor |-> IF tagRecognized THEN firstTag.color ELSE defaultTagColor,
         connector |-> nullObject]

\* firstLineCenter = -totalHeight / 2 + rowHeight / 2, in half pixels
FirstLineCenterAtTop(totalHeight, rowHeight) == 0 - totalHeight
FirstLineCenter(totalHeight, rowHeight) == rowHeight - totalHeight

\* lineCenters of parseDocument, in half pixels: totalHeight uses
\* max(0, lineCount - 1) * columnGap
documentLineCenters(lineCount, rowHeight, columnGap) ==
    LET totalHeight == lineCount * rowHeight + Max(0, lineCount - 1) * columnGap
        firstLineCenter == FirstLineCenter(totalHeight, rowHeight)
    IN  [index \in 1..lineCount |->
            firstLineCenter + 2 * (index - 1) * (rowHeight + columnGap)]

\* lineCenters[lastChild] + rowHeight / 2, in half pixels
ChildBottomAtCenter(center, rowHeight) == center
ChildBottom(center, rowHeight) == center + rowHeight

\* the connector parseDocument stores on line `index` (0-based); height and
\* offset in half pixels
documentConnector(parsedLines, centers, rowHeight, index) ==
    LET line == parsedLines[index + 1]
        levels == [k \in 1..Len(parsedLines) |-> parsedLines[k].indentLevel]
        childIndices == ChildIndicesOf(levels, index)
    IN  IF ~line.hasTag \/ Len(childIndices) = 0 THEN nullObject
        ELSE LET firstChild == childIndices[1]
                 lastChild == childIndices[Len(childIndices)]
                 parentCenter == centers[index + 1]
                 firstChildTop == centers[firstChild + 1] - rowHeight
                 lastChildBottom == ChildBottom(centers[lastChild + 1], rowHeight)
                 height == Max(0, lastChildBottom - firstChildTop)
             IN  [color |-> IF line.tagRecognized THEN line.tagColor
                            ELSE defaultTagColor,
                  height |-> height,
                  offset |-> firstChildTop + height \div 2 - parentCenter]

parseDocument(lines, layoutConfig) ==
    LET parsedLines == [k \in 1..Len(lines) |-> parseLine(lines[k])]
        centers == documentLineCenters(Len(lines), layoutConfig.rowHeight,
                                           layoutConfig.columnGap)
    IN  [lines |-> [k \in 1..Len(lines) |->
                      [parsedLines[k] EXCEPT !.connector =
                          documentConnector(parsedLines, centers,
                                            layoutConfig.rowHeight, k - 1)]],
         lineCenters |-> centers,
         layout |-> layoutConfig]

(***************************************************************************)
(* Reveal engine                                                           *)
(***************************************************************************)
\* typedWithin(token)() at the cursor value typedValue
typedWithinNoFloor(token, typedValue) == Min(token.length, typedValue - token.start)
typedWithin(token, typedValue) ==
    Max(0, Min(token.length, typedValue - token.start))

\* caretVisible = () => typed() < totalCharacters
caretVisibleAtEnd(typedValue, total) == typedValue <= total
caretVisible(typedValue, total) == typedValue < total

\* activeLineIndex(): the first row whose range ends after typed(), else the
\* last row
activeLineIndex(ranges, typedValue) ==
    LET open == {i \in 0..(Len(ranges) - 1) : typedValue < ranges[i + 1].end}
    IN  IF open = {} THEN Len(ranges) - 1
        ELSE CHOOSE i \in open : \A other \in open : i <= other

\* opacity of the caret of row lineIndex
caretOpacity(ranges, total, lineIndex, typedValue) ==
    IF caretVisible(typedValue, total)
       /\ activeLineIndex(ranges, typedValue) = lineIndex
    THEN 1 ELSE 0

(***************************************************************************)
(* connectorPlacement                                                      *)
(***************************************************************************)
\* (childIndex) => typed() >= markerRevealThresholds[childIndex]
ChildActiveStrict(typedValue, threshold) == typedValue > threshold
ChildActive(typedValue, threshold) == typedValue >= threshold

\* connector.childIndices.filter(...)
activeChildrenOf(childIndices, thresholds, typedValue) ==
    SelectSeq(childIndices,
              LAMBDA childIndex : ChildActive(typedValue, thresholds[childIndex + 1]))

\* activeChildren[activeChildren.length - 1]
FirstActiveChild(activeChildren) == activeChildren[1]
LastActiveChild(activeChildren) == activeChildren[Len(activeChildren)]

\* lineCenters[firstChild] - rowHeight / 2, in half pixels
FirstChildTopAtCenter(center, rowHeight) == center
FirstChildTop(center, rowHeight) == center - rowHeight

\* connectorPlacement() of row lineIndex (0-based) when typed() = typedValue;
\* height and offset in half pixels
connectorPlacement(connector, thresholds, centers, rowHeight, lineIndex, typedValue) ==
    IF connector = nullObject THEN [height |-> 0, offset |-> 0]
    ELSE IF typedValue < thresholds[lineIndex + 1] THEN [height |-> 0, offset |-> 0]
    ELSE LET activeChildren ==
                 activeChildrenOf(connector.childIndices, thresholds, typedValue)
         IN  IF Len(activeChildren) = 0 THEN [height |-> 0, offset |-> 0]
             ELSE LET firstChild == activeChildren[1]
                      lastChild == LastActiveChild(activeChildren)
                      parentCenter == centers[lineIndex + 1]
                      firstChildTop == FirstChildTop(centers[firstChild + 1], rowHeight)
                      lastChildBottom == centers[lastChild + 1] + rowHeight
                      height == Max(0, lastChildBottom - firstChildTop)
                  IN  [height |-> height,
                       offset |-> firstChildTop + height \div 2 - parentCenter]

\* the placement the tag scene draws for row lineIndex at the current typed()
scenePlacement(lineIndex) ==
    connectorPlacement(connectors[lineIndex + 1], markerRevealThresholds,
                       lineCenters, sceneRowHeight, lineIndex, typed)

(***************************************************************************)
(* shared/checklist: renderCheckboxIcon                                    *)
(***************************************************************************)
baseFill(state) ==
    CASE state = "done" -> "#5eea91"
      [] state = "inProgress" -> "#f59e0b"
      [] state = "cancelled" -> "#475569"
      [] state = "error" -> "#ef4444"
      [] state = "question" -> "#a855f7"
      [] OTHER -> "#0f1218"

strokeColor(state) ==
    CASE state = "unchecked" -> "#cbd5f5"
      [] state = "inProgress" -> "#fbbf24"
      [] OTHER -> baseFill(state)

\* the outline width with the case labels of 'unchecked' and 'done' exchanged
strokeWidthDoneOutlined(state) == IF state \in {"done", "inProgress"} THEN 4 ELSE 0
strokeWidth(state) == IF state \in {"unchecked", "inProgress"} THEN 4 ELSE 0

\* opacity={() => (resolveState() === shown ? 1 : 0)}
GlyphOpacity(state, shown) == IF state = shown THEN 1 ELSE 0

\* the node renderCheckboxIcon(state, {visibility}) builds: the opacity of the
\* frame, the fill of the disc, the outline, and the opacity of each glyph
renderCheckboxIcon(state, visibility) ==
    [opacity |-> visibility,
     fill |-> baseFill(state),
     stroke |-> strokeColor(state),
     lineWidth |-> strokeWidth(state),
     checkmark |-> GlyphOpacity(state, "done"),
     bar |-> GlyphOpacity(state, "cancelled"),
     exclamation |-> GlyphOpacity(state, "error"),
     questionMark |-> GlyphOpacity(state, "question"),
     wedge |-> GlyphOpacity(state, "inProgress")]

(***************************************************************************)
(* renderTokenNode of the tag scene                                        *)
(***************************************************************************)
\* visibility: () => (portion() >= token.length ? 1 : 0)
IconVisibilityOnFirstCharacter(portion, length) == IF portion > 0 THEN 1 ELSE 0
IconVisibility(portion, length) == IF portion >= length THEN 1 ELSE 0

\* case 'checkbox': the raw text node and, when the token has a
\* checkboxIndex, the icon of checkboxStateSignals[token.checkboxIndex]
checkboxNode(token, portion) ==
    [text |-> IF portion < token.length THEN Slice(token.raw, 0, portion) ELSE <<>>,
     textOpacity |-> IF portion < token.length THEN 1 ELSE 0,
     icon |-> IF "checkboxIndex" \in DOMAIN token
              THEN renderCheckboxIcon(token.state,
                                      IconVisibility(portion, token.length))
              ELSE nullObject,
     iconState |-> IF "checkboxIndex" \in DOMAIN token THEN token.state
                   ELSE "undefined"]

\* case 'tag' of the tag scene; the name and text signals hold
\* tagToken.tagName and tagToken.raw
tagNode(token, portion) ==
    LET textValue == token.raw
        tagNameValue == token.tagName
        visibleLength == Min(portion, Len(textValue))
        hasCharacters == visibleLength > 0
        hasTagBody == Len(tagNameValue) > 0
    IN  [radius |-> IF hasTagBody THEN 999 ELSE 0,
         fill |-> IF hasTagBody THEN PaletteColor(tagNameValue) ELSE "#00000000",
         padding |-> IF hasTagBody THEN <<4, 12>> ELSE <<0, 0>>,
         opacity |-> IF hasCharacters THEN 1 ELSE 0,
         text |-> Slice(textValue, 0, visibleLength),
         textFill |-> IF hasTagBody THEN "#080b11" ELSE "#d7deeb"]

\* case 'space'
spaceNode(token, portion) == [width |-> IF portion > 0 THEN token.width ELSE 0]

\* the character U+2022 that replaces a typed dash
bulletGlyph == "U+2022"

\* portion() < token.length
BulletBeingTypedAfterFirst(portion, length) == 0 < portion /\ portion < length
BulletBeingTyped(portion, length) == portion < length

\* case 'bullet'
bulletNode(token, portion) ==
    [text |-> IF BulletBeingTyped(portion, token.length) THEN Slice(token.raw, 0, portion)
              ELSE <<bulletGlyph>>]

\* case 'text'
textNode(token, portion) == [text |-> Slice(token.raw, 0, portion)]

(***************************************************************************)
(* renderTokenNode of the example scene                                    *)
(***************************************************************************)
exampleTagPalette ==
    (<<"t","o","d","o">> :> "#8f6bff") @@
    (<<"b","a","c","k","l","o","g">> :> "#4ba3ff") @@
    (<<"t","a","g">> :> "#38bdf8")

\* tagPalette[token.tagName] ?? defaultTagColor
ExamplePaletteColor(name) ==
    IF name \in DOMAIN exampleTagPalette THEN exampleTagPalette[name]
    ELSE defaultTagColor

\* case 'tag' of the example scene
exampleTagNode(token, portion) ==
    [radius |-> 999,
     fill |-> ExamplePaletteColor(token.tagName),
     padding |-> IF portion > 0 THEN <<4, 12>> ELSE <<0, 0>>,
     opacity |-> IF portion > 0 THEN 1 ELSE 0,
     text |-> Slice(token.raw, 0, portion),
     textFill |-> "#080b11"]

(***************************************************************************)
(* Explored inputs.                                                        *)
(***************************************************************************)
Spaces(n) == [k \in 1..n |-> " "]

\* what follows the indentation: nothing, a dash, a bracket group after a dash
Heads ==
    {<<>>, <<"-">>, <<"-", Tab, "[", "x", "]">>, <<"-", "[", "x", "]">>,
     <<"a", " ", "-", " ", "[", "x", "]">>}
    \cup {<<"-", " ", "[", c, "]">> : c \in CheckboxClass \cup {"q"}}

TailChars == {" ", Tab, "-", "#", "a"}
Tails == UNION {[1..n -> TailChars] : n \in 0..MaxTail}

\* lines with a markdown link, which parseSegments recognises
LinkLines ==
    {<<"[", "a", "]", "(", "#", "b", ")">>,
     <<"-", " ", "[", "a", "]", "(", "b", ")", " ", "#", "c">>,
     <<"[", "a", "]", " ", "(", "#", "b">>}

Lines ==
    {Spaces(n) \o head \o tail : n \in 0..MaxIndent, head \in Heads, tail \in Tails}
    \cup LinkLines

\* rows of the multi-line documents: indent levels 0..2, leading and mid-line
\* tags, a checkbox row, an empty row
DocLines ==
    {<<"-", " ", "#", "t">>,
     Spaces(4) \o <<"-", " ", "#", "t">>,
     <<"-", " ", "a">>,
     Spaces(4) \o <<"-", " ", "a">>,
     Spaces(8) \o <<"a">>,
     <<"-", " ", "a", " ", "#", "t">>,
     <<>>,
     <<"-", " ", "[", "x", "]", " ", "#", "t", "a", "g">>,
     Spaces(3) \o <<"#">>}

DocsUpTo(maxLines) == UNION {[1..n -> DocLines] : n \in 0..maxLines}

\* rows of the documents whose reveal is stepped: owners with and without a
\* marker, children with and without a marker, a nested owner, a checkbox
\* followed by a bare '#', an empty row and a row of indentation only
GrowLines ==
    {<<"#", "t">>,
     <<"-", " ", "#", "t">>,
     Spaces(4) \o <<"-", " ", "a">>,
     Spaces(4) \o <<"#", "t">>,
     Spaces(8) \o <<"a">>,
     <<"-", " ", "[", "/", "]", " ", "#">>,
     <<>>,
     Spaces(4)}

\* rows of the documents laid out with other row heights and gaps
LayoutLines ==
    {<<"#", "t">>,
     Spaces(4) \o <<"#", "t">>,
     Spaces(4) \o <<"a">>,
     Spaces(8) \o <<"a">>,
     <<"a">>}

LayoutDocs == UNION {[1..n -> LayoutLines] : n \in 0..MaxLayoutLines}

\* {...defaultLayoutConfig, ...options.layout} for the explored options
Layouts ==
    {[defaultLayoutConfig EXCEPT !.rowHeight = h, !.columnGap = g] :
        h \in 0..MaxRowHeight, g \in 0..MaxColumnGap}
    \cup {defaultLayoutConfig}

\* the lines the daily-notes scene types
dailyTargetLines ==
    <<<<"W", "h", "a", "t", " ", "I", " ", "n", "e", "e", "d", " ",
        "t", "o", " ", "g", "e", "t", " ", "d", "o", "n", "e", ":">>,
      <<"-", " ", "b", "u", "y", " ", "g", "r", "o", "c", "e", "r",
        "i", "e", "s">>,
      <<"-", " ", "s", "e", "t", "u", "p", " ", "m", "o", "r", "t",
        "g", "a", "g", "e", " ", "a", "u", "t", "o", "p", "a", "y">>,
      <<"-", " ", "s", "c", "h", "e", "d", "u", "l", "e", " ", "a",
        "p", "p", "l", "i", "a", "n", "c", "e", " ", "r", "e", "p",
        "a", "i", "r">>,
      <<>>,
      <<"P", "e", "r", "s", "o", "n", "a", "l", " ", "P", "r", "o",
        "j", "e", "c", "t", ":">>,
      <<"-", " ", "n", "e", "e", "d", " ", "t", "o", " ", "f", "i",
        "n", "i", "s", "h", " ", "t", "r", "o", "u", "b", "l", "e",
        "s", "h", "o", "o", "t", "i", "n", "g", " ", "t", "h", "e",
        " ", "t", "i", "m", "e", "s", "t", "a", "m", "p", " ", "i",
        "s", "s", "u", "e">>,
      <<"-", " ", "f", "e", "a", "t", "u", "r", "e", " ", "i", "d",
        "e", "a", ":", " ", "i", "n", "s", "t", "a", "l", "l", " ",
        "f", "l", "u", "x", " ", "c", "a", "p", "a", "c", "i", "t",
        "o", "r">>>>

\* '- buy groceries', the line that later becomes a task
firstTaskLine == <<"-", " ", "b", "u", "y", " ", "g", "r", "o", "c", "e", "r", "i",
      "e", "s">>

\* the text inserted after the dash of the task line
insertion == <<"[", " ", "]", " ", "#", "t", "o", "d", "o", " ">>

\* the scene's own lines and shorter texts: the task line alone, the task line
\* under a tagged parent, a text without the task line, no line at all
TargetDocs ==
    {dailyTargetLines,
     <<firstTaskLine>>,
     <<<<"#", "t">>, Spaces(4) \o firstTaskLine, firstTaskLine>>,
     <<<<>>, <<"#", "t">>, Spaces(4) \o <<"a">>>>,
     <<>>}

GrowDocs == UNION {[1..n -> GrowLines] : n \in 0..MaxGrowLines}

(***************************************************************************)
(* State machine.                                                          *)
(***************************************************************************)
SceneIdle(documents, layouts) ==
    /\ checklistLines \in documents
    /\ pc = "init"
    /\ layout \in layouts
    /\ lineAnalyses = <<>>
    /\ tokenizedLines = <<>>
    /\ linesWithRanges = <<>>
    /\ totalCharacters = 0
    /\ connectors = <<>>
    /\ lineCenters = <<>>
    /\ lineRanges = <<>>
    /\ markerRevealThresholds = <<>>
    /\ parsedDocument = nullObject
    /\ typed = 0

\* the daily-notes scene is not running
DailyOff ==
    /\ dailyPc = "off"
    /\ targetLines = <<>>
    /\ currentLines = <<>>
    /\ documentChildren = <<>>
    /\ documentVersion = 0
    /\ typingLineIndex = 0
    /\ typingCharIndex = 0
    /\ originalLine = <<>>

InitWith(documents, layouts) == SceneIdle(documents, layouts) /\ DailyOff

\* the daily-notes scene before its generator runs
InitDaily ==
    /\ SceneIdle({<<>>}, {defaultLayoutConfig})
    /\ dailyPc = "init"
    /\ targetLines \in TargetDocs
    /\ currentLines = <<>>
    /\ documentChildren = <<>>
    /\ documentVersion = 0
    /\ typingLineIndex = 0
    /\ typingCharIndex = 0
    /\ originalLine = <<>>

\* multi-line documents
Init == InitWith(DocsUpTo(MaxLines), {defaultLayoutConfig})
\* one-line documents over the line alphabet
InitLine == InitWith({<<line>> : line \in Lines}, {defaultLayoutConfig})
\* short documents, for the reveal cursor
InitReveal == InitWith(DocsUpTo(MaxRevealLines), {defaultLayoutConfig})

\* documents whose reveal is stepped by the typing loop
InitGrow == InitWith(GrowDocs, {defaultLayoutConfig})

\* documents parsed under every explored layout
InitLayout == InitWith(LayoutDocs, Layouts)

\* the synchronous part of the tag scene, up to its first yield
BuildScene ==
    /\ pc = "init"
    /\ LET lineCount == Len(checklistLines)
           analyses == [k \in 1..lineCount |-> analyzeLine(checklistLines[k])]
           tokenized == [k \in 1..lineCount |-> tokenizeLine(checklistLines[k])]
           ranged == RangeLines(tokenized, 0, 0, 0, <<>>)
       IN  /\ lineAnalyses' = analyses
           /\ tokenizedLines' = tokenized
           /\ lineCenters' = sceneLineCenters(lineCount, sceneRowHeight,
                                               sceneColumnGap)
           /\ linesWithRanges' = ranged.lines
           /\ totalCharacters' = ranged.runningTotal
           /\ connectors' = [k \in 1..lineCount |->
                                sceneConnector(analyses, ranged.lines, k - 1)]
           /\ lineRanges' = [k \in 1..lineCount |-> lineRangeOf(ranged.lines[k])]
           /\ markerRevealThresholds' =
                  [k \in 1..lineCount |-> markerRevealThreshold(ranged.lines[k])]
    /\ typed' = 0
    /\ pc' = "built"
    /\ UNCHANGED <<checklistLines, layout, parsedDocument>>
    /\ UNCHANGED dailyVars

\* parseDocument(lines) of the shared module on the same lines
CallParseDocument ==
    /\ pc = "built"
    /\ parsedDocument' = parseDocument(checklistLines, layout)
    /\ pc' = "parsed"
    /\ UNCHANGED <<checklistLines, layout, lineAnalyses, tokenizedLines,
                   linesWithRanges, totalCharacters, connectors, lineCenters,
                   lineRanges, markerRevealThresholds, typed>>
    /\ UNCHANGED dailyVars

\* one iteration of the typing loop: typed(i) for i = 1..totalCharacters
TypeStep ==
    /\ pc = "built"
    /\ typed < totalCharacters
    /\ typed' = typed + 1
    /\ UNCHANGED <<pc, checklistLines, layout, lineAnalyses, tokenizedLines,
                   linesWithRanges, totalCharacters, connectors, lineCenters,
                   lineRanges, markerRevealThresholds, parsedDocument>>
    /\ UNCHANGED dailyVars

\* typed(value): the caller moves the reveal cursor, in range or not
SetTyped(value) ==
    /\ pc = "built"
    /\ typed' = value
    /\ UNCHANGED <<pc, checklistLines, layout, lineAnalyses, tokenizedLines,
                   linesWithRanges, totalCharacters, connectors, lineCenters,
                   lineRanges, markerRevealThresholds, parsedDocument>>
    /\ UNCHANGED dailyVars

(***************************************************************************)
(* The daily-notes scene.  One action runs the generator from one waitFor  *)
(* to the next; dailyPc names the waitFor (by its source line) at which    *)
(* the scene is suspended.                                                 *)
(***************************************************************************)
\* targetLines.indexOf(line), -1 when absent
LineIndexOf(lines, line) ==
    LET hits == {k \in 1..Len(lines) : lines[k] = line}
    IN  IF hits = {} THEN 0 - 1
        ELSE (CHOOSE k \in hits : \A other \in hits : k <= other) - 1

firstTaskLineIndex == LineIndexOf(targetLines, firstTaskLine)

\* buildDocumentNodes(document, {keyPrefix}): one row node per parsed line,
\* keyed by the prefix (its version number) and the line index
buildDocumentNodes(document, keyPrefix) ==
    [k \in 1..Len(document.lines) |->
        [key |-> <<keyPrefix, k - 1>>,
         height |-> document.layout.rowHeight,
         hasConnector |-> document.lines[k].connector # nullObject]]

\* documentNode.removeChildren() followed by documentNode.add(node) per node
ChildrenAppended(children, nodes) == children \o nodes
ChildrenReplaced(children, nodes) == nodes

\* the line array after currentLines[index] = value
LineAssigned(lines, index, value) == [lines EXCEPT ![index + 1] = value]

\* currentLines[index] = value; rebuildDocument()
MutateAndRebuild(index, value) ==
    LET lines == LineAssigned(currentLines, index, value)
        document == parseDocument(lines, defaultLayoutConfig)
    IN  /\ currentLines' = lines
        /\ parsedDocument' = document
        /\ documentChildren' =
               ChildrenReplaced(documentChildren,
                                buildDocumentNodes(document, documentVersion))
        /\ documentVersion' = documentVersion + 1

\* the head of the line loop with lineIndex = index, up to the next waitFor
EnterLine(index) ==
    IF index < Len(targetLines)
    THEN IF Len(targetLines[index + 1]) = 0
         THEN /\ MutateAndRebuild(index, <<>>)
              /\ dailyPc' = "waitFor96"
              /\ typingLineIndex' = index
              /\ UNCHANGED <<targetLines, typingCharIndex, originalLine>>
         ELSE /\ MutateAndRebuild(index, Slice(targetLines[index + 1], 0, 1))
              /\ dailyPc' = "waitFor103"
              /\ typingLineIndex' = index
              /\ typingCharIndex' = 0
              /\ UNCHANGED <<targetLines, originalLine>>
    ELSE /\ dailyPc' = "waitFor109"
         /\ typingLineIndex' = index
         /\ UNCHANGED <<targetLines, currentLines, parsedDocument,
                        documentChildren, documentVersion, typingCharIndex,
                        originalLine>>

\* the generator up to its first waitFor: blank lines, first parse, view.add
DailyConstruct ==
    /\ dailyPc = "init"
    /\ LET lines == [k \in 1..Len(targetLines) |-> <<>>]
           document == parseDocument(lines, defaultLayoutConfig)
       IN  /\ currentLines' = lines
           /\ parsedDocument' = document
           /\ documentChildren' = buildDocumentNodes(document, documentVersion)
           /\ documentVersion' = documentVersion + 1
    /\ dailyPc' = "waitFor88"
    /\ UNCHANGED <<targetLines, typingLineIndex, typingCharIndex, originalLine>>
    /\ UNCHANGED sceneVars

\* after the opening pause: the first line
ResumeOpening ==
    /\ dailyPc = "waitFor88"
    /\ EnterLine(0)
    /\ UNCHANGED sceneVars

\* after the pause of an empty line: continue with the next line
ResumeEmptyLine ==
    /\ dailyPc = "waitFor96"
    /\ EnterLine(typingLineIndex + 1)
    /\ UNCHANGED sceneVars

\* after the pause of a typed character: the next character, or the end of
\* the character loop
ResumeCharacter ==
    /\ dailyPc = "waitFor103"
    /\ LET targetLine == targetLines[typingLineIndex + 1]
           charIndex == typingCharIndex + 1
       IN  IF charIndex < Len(targetLine)
           THEN /\ MutateAndRebuild(typingLineIndex,
                                    Slice(targetLine, 0, charIndex + 1))
                /\ typingCharIndex' = charIndex
                /\ UNCHANGED <<dailyPc, targetLines, typingLineIndex, originalLine>>
           ELSE /\ dailyPc' = "waitFor106"
                /\ typingCharIndex' = charIndex
                /\ UNCHANGED <<targetLines, currentLines, parsedDocument,
                               documentChildren, documentVersion,
                               typingLineIndex, originalLine>>
    /\ UNCHANGED sceneVars

\* after the pause at the end of a line: the next line
ResumeLineEnd ==
    /\ dailyPc = "waitFor106"
    /\ EnterLine(typingLineIndex + 1)
    /\ UNCHANGED sceneVars

\* after the pause that follows the typing: look up the task line
ResumeTyped ==
    /\ dailyPc = "waitFor109"
    /\ IF firstTaskLineIndex >= 0
       THEN /\ originalLine' = currentLines[firstTaskLineIndex + 1]
            /\ dailyPc' = "waitFor117"
       ELSE /\ dailyPc' = "waitFor129"
            /\ UNCHANGED originalLine
    /\ UNCHANGED <<targetLines, currentLines, parsedDocument, documentChildren,
                   documentVersion, typingLineIndex, typingCharIndex>>
    /\ UNCHANGED sceneVars

\* the task line with the first charCount characters of the insertion
\* placed after its first two characters
LineWithInsertion(charCount) ==
    Slice(originalLine, 0, 2) \o Slice(insertion, 0, charCount)
        \o SliceFrom(originalLine, 2)

\* the first character of the insertion
ResumeInsertion ==
    /\ dailyPc = "waitFor117"
    /\ MutateAndRebuild(firstTaskLineIndex, LineWithInsertion(1))
    /\ typingCharIndex' = 0
    /\ dailyPc' = "waitFor125"
    /\ UNCHANGED <<targetLines, typingLineIndex, originalLine>>
    /\ UNCHANGED sceneVars

\* the following characters of the insertion, or the end of its loop
ResumeInsertedCharacter ==
    /\ dailyPc = "waitFor125"
    /\ LET charIndex == typingCharIndex + 1
       IN  IF charIndex < Len(insertion)
           THEN /\ MutateAndRebuild(firstTaskLineIndex,
                                    LineWithInsertion(charIndex + 1))
                /\ typingCharIndex' = charIndex
                /\ UNCHANGED <<dailyPc, targetLines, typingLineIndex, originalLine>>
           ELSE /\ dailyPc' = "waitFor129"
                /\ typingCharIndex' = charIndex
                /\ UNCHANGED <<targetLines, currentLines, parsedDocument,
                               documentChildren, documentVersion,
                               typingLineIndex, originalLine>>
    /\ UNCHANGED sceneVars

\* after the closing pause the generator returns
DailyFinish ==
    /\ dailyPc = "waitFor129"
    /\ dailyPc' = "done"
    /\ UNCHANGED <<targetLines, currentLines, parsedDocument, documentChildren,
                   documentVersion, typingLineIndex, typingCharIndex,
                   originalLine>>
    /\ UNCHANGED sceneVars

NextDaily ==
    \/ DailyConstruct
    \/ ResumeOpening
    \/ ResumeEmptyLine
    \/ ResumeCharacter
    \/ ResumeLineEnd
    \/ ResumeTyped
    \/ ResumeInsertion
    \/ ResumeInsertedCharacter
    \/ DailyFinish
SpecDaily == InitDaily /\ [][NextDaily]_vars

Next == BuildScene \/ CallParseDocument
Spec == Init /\ [][Next]_vars

NextLine == BuildScene \/ CallParseDocument
SpecLine == InitLine /\ [][NextLine]_vars

NextReveal ==
    \/ BuildScene
    \/ \E value \in (0 - TypedMargin)..(totalCharacters + TypedMargin) : SetTyped(value)
SpecReveal == InitReveal /\ [][NextReveal]_vars

NextLayout == BuildScene \/ CallParseDocument
SpecLayout == InitLayout /\ [][NextLayout]_vars

NextGrow == BuildScene \/ TypeStep
SpecGrow == InitGrow /\ [][NextGrow]_vars

\* the player resumes the typing loop after every waitFor until it ends
SpecGrowFair == SpecGrow /\ WF_vars(TypeStep)

(***************************************************************************)
(* Properties.                                                             *)
(***************************************************************************)
RECURSIVE ConcatRaw(_)
ConcatRaw(tokens) ==
    IF tokens = <<>> THEN <<>> ELSE tokens[1].raw \o ConcatRaw(Tail(tokens))

RECURSIVE Flatten(_)
Flatten(seqs) == IF seqs = <<>> THEN <<>> ELSE seqs[1] \o Flatten(Tail(seqs))

RECURSIVE SumLengths(_)
SumLengths(tokens) ==
    IF tokens = <<>> THEN 0 ELSE tokens[1].length + SumLengths(Tail(tokens))

Clamp(x, lo, hi) == IF x < lo THEN lo ELSE IF x > hi THEN hi ELSE x

LineIndices == 1..Len(checklistLines)

\* C1: concatenating the raw strings of the tokens of a line, in order, gives
\* back the line, and every token's length is the length of its raw string.
TokenizerRoundTrip ==
    pc # "init" =>
        \A i \in LineIndices :
            /\ ConcatRaw(tokenizedLines[i]) = checklistLines[i]
            /\ \A k \in 1..Len(tokenizedLines[i]) :
                   tokenizedLines[i][k].length = Len(tokenizedLines[i][k].raw)

\* a tokenized line with a tab, a bullet token and a tag token
TokenizerRoundTripWitness ==
    /\ pc # "init"
    /\ Len(checklistLines) = 1
    /\ \E k \in 1..Len(checklistLines[1]) : checklistLines[1][k] = Tab
    /\ \E k \in 1..Len(tokenizedLines[1]) : tokenizedLines[1][k].type = "bullet"
    /\ \E k \in 1..Len(tokenizedLines[1]) : tokenizedLines[1][k].type = "tag"

\* C2: in the flattened token stream the first token starts at 0, every token
\* ends at start + length, every token starts where the previous one ends
\* (also across lines), and totalCharacters is the sum of the token lengths.
OffsetContiguity ==
    pc # "init" =>
        LET flat == Flatten(linesWithRanges) IN
        /\ flat # <<>> => flat[1].start = 0
        /\ \A k \in 1..Len(flat) : flat[k].end = flat[k].start + flat[k].length
        /\ \A k \in 2..Len(flat) : flat[k].start = flat[k - 1].end
        /\ totalCharacters = SumLengths(flat)

\* a built document with an empty line between two lines that have tokens
OffsetContiguityWitness ==
    /\ pc # "init"
    /\ \E i \in LineIndices :
          /\ checklistLines[i] = <<>>
          /\ \E h \in 1..(i - 1) : linesWithRanges[h] # <<>>
          /\ \E j \in (i + 1)..Len(checklistLines) :
                /\ linesWithRanges[j] # <<>>
                /\ linesWithRanges[j][1].start > 0

\* C3: at every cursor value, also negative or past totalCharacters, the
\* reveal portion of a token is clamp(typed - start, 0, length): it lies in
\* 0..length, does not shrink when typed grows, and is length from end on.
RevealPortionClamped ==
    pc = "built" =>
        \A i \in LineIndices : \A k \in 1..Len(linesWithRanges[i]) :
            LET token == linesWithRanges[i][k]
                portion == typedWithin(token, typed)
            IN  /\ portion = Clamp(typed - token.start, 0, token.length)
                /\ portion \in 0..token.length
                /\ portion <= typedWithin(token, typed + 1)
                /\ typed >= token.end => portion = token.length

\* the cursor is below 0 while the document has a token that starts after 0
RevealPortionClampedWitness ==
    /\ pc = "built"
    /\ typed < 0
    /\ \E i \in LineIndices : \E k \in 1..Len(linesWithRanges[i]) :
          linesWithRanges[i][k].start > 0 /\ linesWithRanges[i][k].length > 1

\* the lowest index after i (0-based) whose indent level is at most that of
\* line i, or the line count
SubtreeEnd(i) ==
    LET n == Len(lineAnalyses)
        stops == {j \in (i + 1)..(n - 1) :
                     lineAnalyses[j + 1].indentLevel <= lineAnalyses[i + 1].indentLevel}
    IN  IF stops = {} THEN n
        ELSE CHOOSE j \in stops : \A other \in stops : j <= other

\* C4: the children of a line i with a connector tag are exactly the lines
\* i+1 .. k-1 in increasing order, k the first later line whose indent level
\* is at most that of i (or the line count); nothing from k on is a child.
SubtreeIsContiguousRun ==
    pc # "init" =>
        \A i \in 0..(Len(lineAnalyses) - 1) :
            lineAnalyses[i + 1].connectorTagName # nullString =>
                LET k == SubtreeEnd(i)
                    run == [c \in 1..(k - 1 - i) |-> i + c]
                IN  IF connectors[i + 1] = nullObject
                    THEN run = <<>>
                    ELSE connectors[i + 1].childIndices = run

\* a connector with children, followed by a line that is deeper than the
\* owner but comes after the end of its subtree
SubtreeIsContiguousRunWitness ==
    /\ pc # "init"
    /\ \E i \in 0..(Len(lineAnalyses) - 1) :
          /\ connectors[i + 1] # nullObject
          /\ Len(connectors[i + 1].childIndices) >= 1
          /\ \E j \in (SubtreeEnd(i) + 1)..(Len(lineAnalyses) - 1) :
                lineAnalyses[j + 1].indentLevel > lineAnalyses[i + 1].indentLevel

\* C5: line i has a connector exactly when analyzeLine found a connector tag
\* name on it and the next line exists and is more indented.
ConnectorIffTagAndDeeperNext ==
    pc # "init" =>
        \A i \in LineIndices :
            connectors[i] # nullObject <=>
                /\ lineAnalyses[i].connectorTagName # nullString
                /\ i + 1 <= Len(lineAnalyses)
                /\ lineAnalyses[i + 1].indentLevel > lineAnalyses[i].indentLevel

\* a tagged last line and a tagged line followed by a sibling: no connector
ConnectorIffTagAndDeeperNextWitness ==
    /\ pc # "init"
    /\ Len(checklistLines) >= 3
    /\ lineAnalyses[Len(lineAnalyses)].connectorTagName # nullString
    /\ connectors[Len(connectors)] = nullObject
    /\ \E i \in 1..(Len(lineAnalyses) - 1) :
          /\ lineAnalyses[i].connectorTagName # nullString
          /\ lineAnalyses[i + 1].indentLevel <= lineAnalyses[i].indentLevel
          /\ connectors[i] = nullObject

\* the first content after indentation, marker and following whitespace is '#'
HasLeadingHash(rawLine) ==
    CharAt(TrimStart(AfterMarker(SliceFrom(rawLine, LeadingSpaces(rawLine)))), 0) = "#"

\* C6: in the document returned by parseDocument a line has a connector only
\* if it carries a leading tag and the next line is strictly more indented; a
\* line whose only hashtag comes after other content has no connector.
ParsedConnectorOnlyOnLeadingTag ==
    pc = "parsed" =>
        \A i \in LineIndices :
            parsedDocument.lines[i].connector # nullObject =>
                /\ HasLeadingHash(checklistLines[i])
                /\ i + 1 <= Len(checklistLines)
                /\ parsedDocument.lines[i + 1].indentLevel
                       > parsedDocument.lines[i].indentLevel

\* the lowest index from `from` on (0-based) that holds a non-whitespace
\* character, or the length of the line
FirstNonWhitespaceFrom(line, from) ==
    LET hits == {p \in from..(Len(line) - 1) : ~isWhitespace(line[p + 1])} IN
    IF hits = {} THEN Len(line) ELSE CHOOSE p \in hits : \A q \in hits : p <= q

\* the same for a whitespace character
FirstWhitespaceFrom(line, from) ==
    LET hits == {p \in from..(Len(line) - 1) : isWhitespace(line[p + 1])} IN
    IF hits = {} THEN Len(line) ELSE CHOOSE p \in hits : \A q \in hits : p <= q

MarkerLength(marker) ==
    IF marker = "checkbox" THEN 5 ELSE IF marker = "bullet" THEN 1 ELSE 0

\* C7: analyzeLine sets connectorTagName only when, after the leading spaces,
\* the marker and any whitespace that follows it, the line goes on with '#'
\* and at least one non-whitespace character; the name is what follows '#' up
\* to the next whitespace. A later '#' or a lone '#' leaves it null.
ConnectorTagNameIsLeadingTag ==
    pc # "init" =>
        \A i \in LineIndices :
            LET line == checklistLines[i]
                info == lineAnalyses[i]
                hash == FirstNonWhitespaceFrom(
                            line, info.indentSpaces + MarkerLength(info.marker))
                nameEnd == FirstWhitespaceFrom(line, hash)
            IN  IF CharAt(line, hash) = "#" /\ nameEnd > hash + 1
                THEN info.connectorTagName = SubSeq(line, hash + 2, nameEnd)
                ELSE info.connectorTagName = nullString

\* a bullet line whose '#' with a name comes after other content: no tag name
ConnectorTagNameIsLeadingTagWitness ==
    /\ pc # "init"
    /\ Len(checklistLines) = 1
    /\ lineAnalyses[1].marker = "bullet"
    /\ lineAnalyses[1].connectorTagName = nullString
    /\ \E k \in 1..(Len(checklistLines[1]) - 1) :
          checklistLines[1][k] = "#" /\ ~isWhitespace(checklistLines[1][k + 1])

\* the line begins with "- [c]" for a single character c
BeginsWithBracketGroup(line) ==
    /\ Len(line) >= 5
    /\ line[1] = "-"
    /\ line[2] = " "
    /\ line[3] = "["
    /\ line[5] = "]"

\* C8: a line that begins "- [c]" with c outside the recognized characters
\* gets a checkbox token of state unchecked, and parseLine reports marker
\* checkbox with checkboxState unchecked.
UnrecognizedStateIsUnchecked ==
    pc = "parsed" =>
        \A i \in LineIndices :
            LET line == checklistLines[i] IN
            (BeginsWithBracketGroup(line)
             /\ line[4] \notin {" ", "x", "X", "/", "-", "!", "?"}) =>
                /\ tokenizedLines[i] # <<>>
                /\ tokenizedLines[i][1].type = "checkbox"
                /\ tokenizedLines[i][1].state = "unchecked"
                /\ parsedDocument.lines[i].marker = "checkbox"
                /\ parsedDocument.lines[i].checkboxState = "unchecked"

\* the state the specification assigns to a bracket character
ExpectedState(c) ==
    CASE c = " " -> "unchecked"
      [] c \in {"x", "X"} -> "done"
      [] c = "/" -> "inProgress"
      [] c = "-" -> "cancelled"
      [] c = "!" -> "error"
      [] c = "?" -> "question"

\* C9: a line that begins "- [c]" with a recognized c gets a checkbox token
\* and a parseLine checkboxState of the state assigned to c, and the two agree.
RecognizedStateMapping ==
    pc = "parsed" =>
        \A i \in LineIndices :
            LET line == checklistLines[i] IN
            (BeginsWithBracketGroup(line)
             /\ line[4] \in {" ", "x", "X", "/", "-", "!", "?"}) =>
                /\ tokenizedLines[i][1].type = "checkbox"
                /\ tokenizedLines[i][1].state = ExpectedState(line[4])
                /\ parsedDocument.lines[i].marker = "checkbox"
                /\ parsedDocument.lines[i].checkboxState = ExpectedState(line[4])
                /\ parsedDocument.lines[i].checkboxState = tokenizedLines[i][1].state

\* a parsed line "- [X]" followed by more text
RecognizedStateMappingWitness ==
    /\ pc = "parsed"
    /\ Len(checklistLines) = 1
    /\ BeginsWithBracketGroup(checklistLines[1])
    /\ checklistLines[1][4] = "X"
    /\ Len(checklistLines[1]) > 5

\* C10: indentSpaces is the number of consecutive spaces at the start of the
\* line (a tab ends the count), indentLevel is floor(indentSpaces / 4), and
\* analyzeLine and parseLine report the same two values.
IndentQuantization ==
    pc = "parsed" =>
        \A i \in LineIndices :
            LET line == checklistLines[i]
                info == lineAnalyses[i]
                parsed == parsedDocument.lines[i]
            IN  /\ info.indentSpaces \in 0..Len(line)
                /\ \A k \in 1..info.indentSpaces : line[k] = " "
                /\ info.indentSpaces < Len(line) => line[info.indentSpaces + 1] # " "
                /\ 4 * info.indentLevel <= info.indentSpaces
                /\ info.indentSpaces < 4 * info.indentLevel + 4
                /\ parsed.indentSpaces = info.indentSpaces
                /\ parsed.indentLevel = info.indentLevel

\* five leading spaces followed by a tab: level 1, the tab is not counted
IndentQuantizationWitness ==
    /\ pc = "parsed"
    /\ Len(checklistLines) = 1
    /\ lineAnalyses[1].indentSpaces = 5
    /\ lineAnalyses[1].indentLevel = 1
    /\ CharAt(checklistLines[1], 5) = Tab

(***************************************************************************)
(* Connector growth.                                                       *)
(***************************************************************************)
\* the rows of the built scene, 0-based
Rows == 0..(Len(connectors) - 1)

\* rows that own a connector
Owners == {i \in Rows : connectors[i + 1] # nullObject}

\* children of row i whose threshold is <= typed, as a set of row indices
ReachedChildren(i) ==
    {connectors[i + 1].childIndices[k] : k \in 1..Len(connectors[i + 1].childIndices)}
        \cap {j \in Rows : markerRevealThresholds[j + 1] <= typed}

SetMin(S) == CHOOSE x \in S : \A y \in S : x <= y
SetMax(S) == CHOOSE x \in S : \A y \in S : x >= y

\* C11: at every value of typed the connector of an owning row i has height 0
\* while typed is below the row's threshold or no child's threshold is
\* reached; otherwise it runs from the top edge of the first reached child
\* to the bottom edge of the last reached child, and its offset is
\* topEdge + height/2 - center(i)  (all in half pixels)
ConnectorGrowthGating ==
    pc = "built" =>
        \A i \in Owners :
            LET placement == scenePlacement(i)
                reached == ReachedChildren(i)
            IN  IF typed < markerRevealThresholds[i + 1] \/ reached = {}
                THEN placement.height = 0
                ELSE LET f == SetMin(reached)
                         l == SetMax(reached)
                         topEdge == lineCenters[f + 1] - sceneRowHeight
                         bottomEdge == lineCenters[l + 1] + sceneRowHeight
                     IN  /\ placement.height = bottomEdge - topEdge
                         /\ 2 * placement.offset =
                                2 * topEdge + placement.height - 2 * lineCenters[i + 1]
                         /\ (f = l => placement.height = 2 * sceneRowHeight)

\* an owner with two children of which only the first is reached, so the
\* connector spans exactly that child's row
ConnectorGrowthGatingWitness ==
    /\ pc = "built"
    /\ \E i \in Owners :
           /\ Len(connectors[i + 1].childIndices) = 2
           /\ Cardinality(ReachedChildren(i)) = 1
           /\ scenePlacement(i).height = 2 * sceneRowHeight

\* C12: at every value of typed the children of a connector whose threshold
\* is reached form a prefix of childIndices, the owner's threshold is reached
\* whenever a child's is, and a visible connector has its top edge at the
\* top edge of the first child of childIndices
ReachedChildrenArePrefix ==
    pc = "built" =>
        \A i \in Owners :
            LET childIndices == connectors[i + 1].childIndices
                reached(k) == markerRevealThresholds[childIndices[k] + 1] <= typed
                placement == scenePlacement(i)
            IN  /\ \A k \in 1..Len(childIndices) :
                       reached(k) =>
                           /\ \A before \in 1..(k - 1) : reached(before)
                           /\ markerRevealThresholds[i + 1] <= typed
                /\ placement.height > 0 =>
                       2 * placement.offset - placement.height + 2 * lineCenters[i + 1]
                           = 2 * (lineCenters[childIndices[1] + 1] - sceneRowHeight)

\* a connector with two children, the first reached and the second not yet
ReachedChildrenArePrefixWitness ==
    /\ pc = "built"
    /\ \E i \in Owners :
           LET childIndices == connectors[i + 1].childIndices
           IN  /\ Len(childIndices) = 2
               /\ markerRevealThresholds[childIndices[1] + 1] <= typed
               /\ markerRevealThresholds[childIndices[2] + 1] > typed
               /\ scenePlacement(i).height > 0

(***************************************************************************)
(* Reveal thresholds.                                                      *)
(***************************************************************************)
\* offset in the typed stream at which row k (1-based) ends: the number of
\* characters of rows 1..k
RECURSIVE RowEndOffset(_)
RowEndOffset(k) == IF k = 0 THEN 0 ELSE RowEndOffset(k - 1) + Len(checklistLines[k])

\* positions of the tokens of row k that are not runs of spaces
NonSpacePositions(k) ==
    {n \in 1..Len(linesWithRanges[k]) : linesWithRanges[k][n].type # "space"}

\* C13: the reveal threshold of a row is the end offset of the checkbox or
\* bullet token that directly follows its indentation; without such a marker
\* the start offset of its first content token; with neither, the end offset
\* of the row
ThresholdIsMarkerEndElseContentStartElseRowEnd ==
    pc # "init" =>
        \A k \in LineIndices :
            LET tokens == linesWithRanges[k]
                rest == NonSpacePositions(k)
            IN  IF rest = {}
                THEN markerRevealThresholds[k] = RowEndOffset(k)
                ELSE LET first == tokens[SetMin(rest)]
                     IN  IF first.type \in {"checkbox", "bullet"}
                         THEN markerRevealThresholds[k] = first.end
                         ELSE markerRevealThresholds[k] = first.start

(***************************************************************************)
(* Geometry of parseDocument.                                              *)
(***************************************************************************)
\* rows of the parsed document, 0-based
ParsedRows == 0..(Len(parsedDocument.lines) - 1)

\* the lowest row after i whose indent level is at most that of row i, or the
\* row count
ParsedSubtreeEnd(i) ==
    LET n == Len(parsedDocument.lines)
        stops == {j \in (i + 1)..(n - 1) :
                     parsedDocument.lines[j + 1].indentLevel
                         <= parsedDocument.lines[i + 1].indentLevel}
    IN  IF stops = {} THEN n ELSE SetMin(stops)

\* C14: a connector of parseDocument whose children are the rows first..last
\* has height center(last) + H/2 - (center(first) - H/2), which is
\* (last - first) * (H + G) + H and never negative, and offset
\* center(first) - H/2 + height/2 - center(parent)  (heights, offsets and
\* centers in half pixels, H and G in pixels)
ParsedConnectorGeometry ==
    pc = "parsed" =>
        \A parent \in ParsedRows :
            LET connector == parsedDocument.lines[parent + 1].connector
                center == parsedDocument.lineCenters
                H == layout.rowHeight
                G == layout.columnGap
                first == parent + 1
                last == ParsedSubtreeEnd(parent) - 1
            IN  connector # nullObject =>
                    /\ first <= last
                    /\ connector.height
                           = center[last + 1] + H - (center[first + 1] - H)
                    /\ connector.height = 2 * ((last - first) * (H + G) + H)
                    /\ connector.height >= 0
                    /\ 2 * connector.offset
                           = 2 * (center[first + 1] - H) + connector.height
                             - 2 * center[parent + 1]

\* a connector over two children under a layout with an odd row height and a
\* non-zero gap
ParsedConnectorGeometryWitness ==
    /\ pc = "parsed"
    /\ layout.rowHeight = 3
    /\ layout.columnGap = 1
    /\ \E parent \in ParsedRows :
           /\ parsedDocument.lines[parent + 1].connector # nullObject
           /\ ParsedSubtreeEnd(parent) - 1 = parent + 2
           /\ parsedDocument.lines[parent + 1].connector.height = 2 * (4 + 3)

\* rows k of `centers` are spaced H + G apart and the stack is centered on
\* zero  (centers in half pixels)
CenteredStack(centers, H, G) ==
    LET n == Len(centers)
    IN  n >= 1 =>
            /\ \A k \in 0..(n - 1) : centers[k + 1] = centers[1] + 2 * k * (H + G)
            /\ centers[1] + centers[n] = 0
            /\ (n = 1 => centers[1] = 0)

\* C15: in a document of n >= 1 rows, center(k) == center(0) + k * (H + G) for
\* every row k and center(0) + center(n-1) == 0, both for the centers of
\* parseDocument under its layout and for the centers of the tag scene
RowCentersAreCenteredStack ==
    /\ pc = "parsed" =>
           CenteredStack(parsedDocument.lineCenters, layout.rowHeight,
                         layout.columnGap)
    /\ pc # "init" => CenteredStack(lineCenters, sceneRowHeight, sceneColumnGap)

\* three rows under a layout with an odd row height and a non-zero gap
RowCentersAreCenteredStackWitness ==
    /\ pc = "parsed"
    /\ layout.rowHeight = 3
    /\ layout.columnGap = 1
    /\ parsedDocument.lineCenters = <<0 - 8, 0, 8>>
    /\ lineCenters = <<0 - 108, 0, 108>>

(***************************************************************************)
(* Token rendering.                                                        *)
(***************************************************************************)
\* positions <<row, n>> of the ranged tokens of the built scene of a type
TokenPositions(type) ==
    {<<k, n>> \in (1..Len(linesWithRanges)) \X (1..totalCharacters) :
        n <= Len(linesWithRanges[k]) /\ linesWithRanges[k][n].type = type}

TokenAt(position) == linesWithRanges[position[1]][position[2]]

\* the reveal portion of the token at a position, at the current typed()
PortionAt(position) == typedWithin(TokenAt(position), typed)

\* C16: at every value of typed a checkbox token shows the prefix
\* raw[0..portion) and no icon while portion < length, and an empty, transparent
\* text and the icon of its state once portion = length; with portion > 0
\* exactly one of the two is shown
CheckboxTextOrIcon ==
    pc = "built" =>
        \A position \in TokenPositions("checkbox") :
            LET token == TokenAt(position)
                portion == typedWithin(token, typed)
                node == checkboxNode(token, portion)
                textShown == node.text # <<>> /\ node.textOpacity = 1
                iconShown == node.icon # nullObject /\ node.icon.opacity = 1
            IN  /\ portion < token.length =>
                       /\ node.text = SubSeq(token.raw, 1, portion)
                       /\ node.textOpacity = 1
                       /\ ~iconShown
                /\ portion = token.length =>
                       /\ node.text = <<>>
                       /\ node.textOpacity = 0
                       /\ iconShown
                       /\ node.iconState = token.state
                /\ portion > 0 => (textShown /\ ~iconShown) \/ (~textShown /\ iconShown)
                /\ portion <= token.length

\* a checkbox token typed halfway: its first three characters shown, no icon
CheckboxTextOrIconWitness ==
    /\ pc = "built"
    /\ \E position \in TokenPositions("checkbox") :
           LET token == TokenAt(position)
               node == checkboxNode(token, typedWithin(token, typed))
           IN  /\ typedWithin(token, typed) = 3
               /\ node.text = <<"-", " ", "[">>
               /\ node.icon.opacity = 0

\* a tag node is drawn as a pill: it is opaque and has a background fill or
\* a padding
PillDrawn(node) ==
    /\ node.opacity = 1
    /\ (node.fill # "#00000000" \/ node.padding # <<0, 0>>)

\* C17: in the tag scene and in the example scene a tag token is drawn as a
\* pill only when at least one of its characters is revealed and its name is
\* not empty; a token whose raw text is just '#' is never drawn as a pill
PillOnlyForRevealedNamedTag ==
    pc = "built" =>
        \A position \in TokenPositions("tag") :
            LET token == TokenAt(position)
                portion == typedWithin(token, typed)
            IN  \A node \in {tagNode(token, portion), exampleTagNode(token, portion)} :
                    PillDrawn(node) => portion >= 1 /\ Len(token.tagName) > 0

\* C18: at typed == 0 nothing is visible: the reveal portion of every token
\* is 0, no checkbox icon and no bullet glyph is shown, no text is shown, no
\* space token has a width, and every connector is drawn with height 0
NothingVisibleAtZero ==
    (pc = "built" /\ typed = 0) =>
        /\ \A k \in 1..Len(linesWithRanges) : \A n \in 1..Len(linesWithRanges[k]) :
               typedWithin(linesWithRanges[k][n], typed) = 0
        /\ \A position \in TokenPositions("checkbox") :
               LET node == checkboxNode(TokenAt(position), PortionAt(position))
               IN  node.text = <<>> /\ (node.icon # nullObject => node.icon.opacity = 0)
        /\ \A position \in TokenPositions("bullet") :
               bulletNode(TokenAt(position), PortionAt(position)).text = <<>>
        /\ \A position \in TokenPositions("tag") :
               tagNode(TokenAt(position), PortionAt(position)).opacity = 0
        /\ \A position \in TokenPositions("text") :
               textNode(TokenAt(position), PortionAt(position)).text = <<>>
        /\ \A position \in TokenPositions("space") :
               spaceNode(TokenAt(position), PortionAt(position)).width = 0
        /\ \A i \in Rows : scenePlacement(i).height = 0

\* typed == 0 in a scene with a checkbox, a bullet after indentation, and a
\* connector whose owner has threshold 0
NothingVisibleAtZeroWitness ==
    /\ pc = "built"
    /\ typed = 0
    /\ totalCharacters > 0
    /\ TokenPositions("checkbox") # {}
    /\ TokenPositions("bullet") # {}
    /\ TokenPositions("space") # {}
    /\ \E i \in Owners : markerRevealThresholds[i + 1] = 0

(***************************************************************************)
(* Checkbox styles.                                                        *)
(***************************************************************************)
CheckboxStates == {checkboxCharToState[c] : c \in DOMAIN checkboxCharToState}

\* the glyphs of an icon node that are opaque
VisibleGlyphs(icon) ==
    {glyph \in {"checkmark", "bar", "exclamation", "questionMark", "wedge"} :
        icon[glyph] = 1}

\* the glyph the style map assigns to a state
AssignedGlyphs(state) ==
    CASE state = "done" -> {"checkmark"}
      [] state = "cancelled" -> {"bar"}
      [] state = "error" -> {"exclamation"}
      [] state = "question" -> {"questionMark"}
      [] state = "inProgress" -> {"wedge"}
      [] state = "unchecked" -> {}

\* C19: the icon of every checkbox token has one of the six states; its
\* outline width is non-zero exactly for unchecked and inProgress, whose
\* outline colors differ, and 0 for done, cancelled, error and question; and
\* exactly the glyph assigned to its state is visible (none for unchecked)
CheckboxStyleMap ==
    /\ Cardinality(CheckboxStates) = 6
    /\ pc # "init" =>
           \A position \in TokenPositions("checkbox") :
               LET token == TokenAt(position)
                   icon == checkboxNode(token, PortionAt(position)).icon
               IN  /\ icon # nullObject
                   /\ token.state \in CheckboxStates
                   /\ icon.lineWidth # 0 <=> token.state \in {"unchecked", "inProgress"}
                   /\ token.state \in {"done", "cancelled", "error", "question"}
                          => icon.lineWidth = 0
                   /\ VisibleGlyphs(icon) = AssignedGlyphs(token.state)
                   /\ \A other \in CheckboxStates :
                          (token.state \in {"unchecked", "inProgress"}
                           /\ other \in {"unchecked", "inProgress"}
                           /\ other # token.state)
                              => renderCheckboxIcon(other, 1).stroke # icon.stroke

\* the icon of a checkbox in progress: outlined, only the wedge visible
CheckboxStyleMapWitness ==
    /\ pc # "init"
    /\ \E position \in TokenPositions("checkbox") :
           LET icon == checkboxNode(TokenAt(position), PortionAt(position)).icon
           IN  /\ TokenAt(position).state = "inProgress"
               /\ icon.lineWidth = 4
               /\ VisibleGlyphs(icon) = {"wedge"}

(***************************************************************************)
(* The daily-notes scene.                                                  *)
(***************************************************************************)
\* C21: whenever the daily-notes scene is suspended, parsedDocument is
\* parseDocument of the current contents of currentLines and the document
\* node holds exactly one row node per entry of currentLines, all built by
\* the latest rebuild, in line order
DailyDocumentIsCurrent ==
    dailyPc \notin {"off", "init"} =>
        /\ parsedDocument = parseDocument(currentLines, defaultLayoutConfig)
        /\ Len(documentChildren) = Len(currentLines)
        /\ \A k \in 1..Len(documentChildren) :
               documentChildren[k].key = <<documentVersion - 1, k - 1>>

\* suspended in the middle of the insertion, after many rebuilds, with a
\* connector drawn on the tagged task line
DailyDocumentIsCurrentWitness ==
    /\ dailyPc = "waitFor125"
    /\ documentVersion > 10
    /\ Len(currentLines) = 3
    /\ currentLines[firstTaskLineIndex + 1] # targetLines[firstTaskLineIndex + 1]
    /\ \E k \in 1..Len(documentChildren) : documentChildren[k].hasConnector

(***************************************************************************)
(* Tokenizer and line analysis.                                            *)
(***************************************************************************)
\* C22: every checkbox token of the tokenizer is a literal '-', one ASCII
\* space, '[', one character of the checkbox class and ']'; a dash followed
\* by a tab and a bracket group is never a checkbox token
CheckboxTokenHasLiteralSpace ==
    pc # "init" =>
        \A position \in TokenPositions("checkbox") :
            LET raw == TokenAt(position).raw
            IN  /\ Len(raw) = 5
                /\ raw[1] = "-"
                /\ raw[2] = " "
                /\ raw[3] = "["
                /\ raw[4] \in CheckboxClass
                /\ raw[5] = "]"

(***************************************************************************)
(* The typing driver.                                                      *)
(***************************************************************************)
\* the typing loop has ended: typed == totalCharacters, every token is
\* fully revealed and no row shows the caret
TypingEnded ==
    /\ pc = "built"
    /\ typed = totalCharacters
    /\ \A k \in 1..Len(linesWithRanges) : \A n \in 1..Len(linesWithRanges[k]) :
           typedWithin(linesWithRanges[k][n], typed) = linesWithRanges[k][n].length
    /\ \A i \in Rows : caretOpacity(lineRanges, totalCharacters, i, typed) = 0

\* C23: typed starts at 0, every step of the typing loop sets it to the
\* previous value plus 1, it never decreases and never exceeds
\* totalCharacters, and the loop, once the scene is built, ends with
\* typed == totalCharacters, every token fully revealed and the caret hidden
\* on every row
TypingDriverRunsToEnd ==
    /\ [](pc = "built" => typed \in 0..totalCharacters)
    /\ [][/\ (pc = "init" => typed' = 0)
          /\ (pc = "built" => typed' = typed + 1 /\ totalCharacters' = totalCharacters)]_vars
    /\ (pc = "built") ~> TypingEnded

\* the end of the typing of a document of three rows
TypingDriverRunsToEndWitness ==
    /\ TypingEnded
    /\ Len(checklistLines) = 3
    /\ totalCharacters > 10
    /\ activeLineIndex(lineRanges, typed) = 2

\* C24: tokenizeLine ends on every line; every step of its scan consumes at
\* least one character: every token has length >= 1, the lengths add up to
\* the length of the line, there are at most as many tokens as characters,
\* and the empty line has no token
TokenizerConsumesInput ==
    pc # "init" =>
        \A k \in LineIndices :
            LET tokens == tokenizedLines[k]
            IN  /\ \A n \in 1..Len(tokens) : tokens[n].length >= 1
                /\ SumLengths(tokens) = Len(checklistLines[k])
                /\ Len(tokens) <= Len(checklistLines[k])
                /\ (checklistLines[k] = <<>> => tokens = <<>>)

\* a line tokenized into as many tokens as it has characters, a one-character
\* text token among them
TokenizerConsumesInputWitness ==
    /\ pc # "init"
    /\ \E k \in LineIndices :
           /\ Len(checklistLines[k]) >= 3
           /\ Len(tokenizedLines[k]) = Len(checklistLines[k])
           /\ \E n \in 1..Len(tokenizedLines[k]) :
                  tokenizedLines[k][n].type = "text"

(***************************************************************************)
(* The revealed text.                                                      *)
(***************************************************************************)
\* the ranged tokens of the scene in stream order
StreamTokens == Flatten(linesWithRanges)

RECURSIVE SumPortions(_)
SumPortions(tokens) ==
    IF tokens = <<>> THEN 0
    ELSE typedWithin(tokens[1], typed) + SumPortions(Tail(tokens))

\* C25: for every integer typed the reveal portions of all tokens add up to
\* clamp(typed, 0, totalCharacters), at most one token is partially revealed,
\* every token before a token with a revealed character is fully revealed and
\* every token after a token that is not fully revealed has portion 0
RevealedTextIsPrefix ==
    pc = "built" =>
        LET tokens == StreamTokens
            portion(n) == typedWithin(tokens[n], typed)
            positions == 1..Len(tokens)
        IN  /\ SumPortions(tokens) = Clamp(typed, 0, totalCharacters)
            /\ Cardinality({n \in positions :
                               0 < portion(n) /\ portion(n) < tokens[n].length}) <= 1
            /\ \A n \in positions : \A m \in positions :
                   (m < n /\ portion(n) > 0) => portion(m) = tokens[m].length
            /\ \A n \in positions : \A m \in positions :
                   (m > n /\ portion(n) < tokens[n].length) => portion(m) = 0

\* the cursor inside a token of the second row: tokens before it complete,
\* tokens after it untouched
RevealedTextIsPrefixWitness ==
    /\ pc = "built"
    /\ Len(checklistLines) = 2
    /\ \E n \in 2..(Len(StreamTokens) - 1) :
           /\ StreamTokens[n].lineIndex = 1
           /\ 0 < typedWithin(StreamTokens[n], typed)
           /\ typedWithin(StreamTokens[n], typed) < StreamTokens[n].length
           /\ typedWithin(StreamTokens[n + 1], typed) = 0

(***************************************************************************)
(* Connector growth over the typing loop.                                  *)
(***************************************************************************)
\* the height drawn for the connector of row i when typed() = typedValue
HeightAt(i, typedValue) ==
    connectorPlacement(connectors[i + 1], markerRevealThresholds, lineCenters,
                       sceneRowHeight, i, typedValue).height

\* the height of a connector that spans all children of row i
FullHeight(i) ==
    LET childIndices == connectors[i + 1].childIndices
    IN  lineCenters[childIndices[Len(childIndices)] + 1] + sceneRowHeight
            - (lineCenters[childIndices[1] + 1] - sceneRowHeight)

\* C26: over the steps of the typing loop the drawn height of every
\* connector never shrinks and changes only in a step at which typed reaches
\* the reveal threshold of one of its children; at typed == totalCharacters
\* the connector spans all of its children
ConnectorGrowsMonotonically ==
    /\ [][(pc = "built" /\ pc' = "built") =>
             \A i \in Owners :
                 /\ HeightAt(i, typed') >= HeightAt(i, typed)
                 /\ HeightAt(i, typed') # HeightAt(i, typed) =>
                        \E k \in 1..Len(connectors[i + 1].childIndices) :
                            markerRevealThresholds[connectors[i + 1].childIndices[k] + 1]
                                = typed']_vars
    /\ []((pc = "built" /\ typed = totalCharacters) =>
             \A i \in Owners : HeightAt(i, typed) = FullHeight(i))

\* the typing is over and a connector spans its two children
ConnectorGrowsMonotonicallyWitness ==
    /\ pc = "built"
    /\ typed = totalCharacters
    /\ \E i \in Owners :
           /\ Len(connectors[i + 1].childIndices) = 2
           /\ scenePlacement(i).height = 2 * (2 * sceneRowHeight + sceneColumnGap)

(***************************************************************************)
(* Shape of the subtrees.                                                  *)
(***************************************************************************)
SeqToSet(seq) == {seq[k] : k \in 1..Len(seq)}

\* the child sets, per owning row, are laminar: of two owners i < j either j
\* is a child of i and all children of j are children of i, or the child
\* sets of i and j are disjoint
Laminar(owners, children(_)) ==
    \A i \in owners : \A j \in owners :
        i < j =>
            IF j \in children(i)
            THEN children(j) \subseteq children(i)
            ELSE children(i) \cap children(j) = {}

\* child set of row i in the tag scene
SceneChildren(i) == SeqToSet(connectors[i + 1].childIndices)

\* child set of row i scanned by parseDocument
ParsedChildren(i) ==
    SeqToSet(ChildIndicesOf([k \in 1..Len(parsedDocument.lines) |->
                                parsedDocument.lines[k].indentLevel], i))

ParsedOwners == {i \in ParsedRows : parsedDocument.lines[i + 1].connector # nullObject}

MarkerTokenType(lineTokens) ==
    LET markerToken == splitLineTokens(lineTokens).markerToken
    IN  IF markerToken = nullObject THEN "null" ELSE markerToken.type

\* C28: the marker analyzeLine reports for a line is the type of the marker
\* token that tokenizeLine and splitLineTokens find in it: checkbox with a
\* checkbox token, bullet with a bullet token, null with no marker token
MarkerAgreesWithMarkerToken ==
    pc # "init" =>
        \A k \in LineIndices :
            lineAnalyses[k].marker = MarkerTokenType(linesWithRanges[k])

\* the placement the tag scene draws for row i once everything is typed
FinalPlacement(i) ==
    connectorPlacement(connectors[i + 1], markerRevealThresholds, lineCenters,
                       sceneRowHeight, i, totalCharacters)

\* rows on which the tag scene and parseDocument both have a connector
SharedOwners == Owners \cap ParsedOwners

\* C29: on every row where the tag scene and parseDocument both produce a
\* connector, the progressive placement at typed = totalCharacters has the
\* height and the offset of the connector parseDocument computes for the
\* same lines with row height 48 and gap 6
FinalPlacementMatchesParsedConnector ==
    (pc = "parsed" /\ layout = defaultLayoutConfig) =>
        \A i \in SharedOwners :
            /\ FinalPlacement(i).height = parsedDocument.lines[i + 1].connector.height
            /\ FinalPlacement(i).offset = parsedDocument.lines[i + 1].connector.offset

\* a shared owner with several children and a nested shared owner below it
FinalPlacementMatchesParsedConnectorWitness ==
    /\ pc = "parsed"
    /\ layout = defaultLayoutConfig
    /\ \E i \in SharedOwners : \E j \in SharedOwners :
           /\ i < j
           /\ Len(connectors[i + 1].childIndices) > 1
           /\ FinalPlacement(i).height > FinalPlacement(j).height
           /\ FinalPlacement(j).height > 0

\* total length of the first n tokens of a tokenized line
RECURSIVE TokenLengthSum(_, _)
TokenLengthSum(lineTokens, n) ==
    IF n = 0 THEN 0 ELSE TokenLengthSum(lineTokens, n - 1) + lineTokens[n].length

\* total token length of the first k lines of the document
RECURSIVE PrecedingLength(_)
PrecedingLength(k) ==
    IF k = 0 THEN 0
    ELSE PrecedingLength(k - 1)
         + TokenLengthSum(tokenizedLines[k], Len(tokenizedLines[k]))

\* C30: the range of every line, an empty line after non-empty lines
\* included, starts at the total token length of the preceding lines and ends
\* at that plus the line's own length; the line's reveal threshold lies
\* within its range; so thresholds never decrease with the line index
RangesTileAndThresholdsAscend ==
    pc # "init" =>
        /\ \A k \in LineIndices :
               /\ lineRanges[k].start = PrecedingLength(k - 1)
               /\ lineRanges[k].end = PrecedingLength(k)
               /\ markerRevealThresholds[k] >= lineRanges[k].start
               /\ markerRevealThresholds[k] <= lineRanges[k].end
        /\ \A k \in LineIndices : \A m \in LineIndices :
               k <= m => markerRevealThresholds[k] <= markerRevealThresholds[m]

====
